---- MODULE Spec2Model ----
(***************************************************************************)
(* A model of BPETokenizer (src/bpe_tokenizer/tokenizer.py): training of   *)
(* a Byte Pair Encoding tokenizer and its encode / decode operations.      *)
(*                                                                         *)
(* A character is a one-character string; a Python str is a sequence of    *)
(* characters.  A symbol is a str, a Word a sequence of symbols.  The      *)
(* word-start marker U+2581 is written "_".  A Counter / dict is a         *)
(* sequence of entries in insertion order, which is the order Python       *)
(* iterates it in.                                                         *)
(***************************************************************************)
EXTENDS Integers, Sequences, FiniteSets, TLC

\* ------------------------------------------------------------------ bounds
MaxCorpusLen == 3
MaxSessionCorpusLen == 2
MaxTextLen == 2
MaxVocabSize == 5
MaxIds == 1
MaxId == 2

\* --------------------------------------------------------------- constants
unk_token == <<"<", "u", "n", "k", ">">>
EndOfWord == <<"<", "/", "w", ">">>
WordStart == "_"
Whitespace == {" "}
\* The characters of the training lines, and those of the texts that are
\* encoded besides the training lines: "b" is in no corpus, so no training
\* knows it.
CorpusAlphabet == {"a", "_", " "}
Alphabet == {"a", "b", " "}

\* Unicode code points: Python compares str by code point.
CodePoint(c) ==
  CASE c = " " -> 32
    [] c = "/" -> 47
    [] c = "<" -> 60
    [] c = ">" -> 62
    [] c = "a" -> 97
    [] c = "b" -> 98
    [] c = "k" -> 107
    [] c = "n" -> 110
    [] c = "u" -> 117
    [] c = "w" -> 119
    [] c = "_" -> 9601

Range(s) == {s[i] : i \in 1..Len(s)}

StringsUpTo(chars, n) == UNION {[1..k -> chars] : k \in 0..n}

RECURSIVE LinesFrom(_, _, _)
LinesFrom(text, cur, out) ==
  IF text = <<>> THEN Append(out, cur)
  ELSE IF Head(text) = "\n" THEN LinesFrom(Tail(text), <<>>, Append(out, cur))
  ELSE LinesFrom(Tail(text), Append(cur, Head(text)), out)

\* The empty corpus, and the lines of every text of at most n characters,
\* line breaks counted.
CorporaUpTo(n) ==
  {<<>>} \cup
  {LinesFrom(text, <<>>, <<>>) :
     text \in StringsUpTo(CorpusAlphabet \cup {"\n"}, n)}

\* The corpora train is called with: where only train is called, and where
\* encode and decode are called as well.
Corpora == CorporaUpTo(MaxCorpusLen)
SessionCorpora == CorporaUpTo(MaxSessionCorpusLen)
Texts == StringsUpTo(Alphabet, MaxTextLen)
VocabSizes == 1..MaxVocabSize
IdSeqs == UNION {[1..k -> 0..MaxId] : k \in 0..MaxIds}

\* ------------------------------------------------------------ str helpers
RECURSIVE lstrip(_)
lstrip(s) ==
  IF s # <<>> /\ Head(s) \in Whitespace THEN lstrip(Tail(s)) ELSE s

RECURSIVE rstrip(_)
rstrip(s) ==
  IF s # <<>> /\ s[Len(s)] \in Whitespace
  THEN rstrip(SubSeq(s, 1, Len(s) - 1)) ELSE s

\* str.strip()
strip(s) == rstrip(lstrip(s))

RECURSIVE split_scan(_, _, _)
split_scan(s, cur, out) ==
  IF s = <<>>
  THEN IF cur = <<>> THEN out ELSE Append(out, cur)
  ELSE IF Head(s) \in Whitespace
       THEN split_scan(Tail(s), <<>>, IF cur = <<>> THEN out ELSE Append(out, cur))
       ELSE split_scan(Tail(s), Append(cur, Head(s)), out)

\* str.split() without arguments: the maximal runs of non-whitespace.
split(s) == split_scan(s, <<>>, <<>>)

\* [f"_{w}" for w in line.strip().split() if w]
MarkedWords(line) ==
  LET ws == split(strip(line))
  IN  [i \in 1..Len(ws) |-> <<WordStart>> \o ws[i]]

\* tuple(list(word) + ["</w>"])
WordTokens(word) == [i \in 1..Len(word) |-> <<word[i]>>] \o <<EndOfWord>>

\* "".join(pair)
Join(pair) == pair[1] \o pair[2]

RECURSIVE JoinAll(_)
JoinAll(pieces) ==
  IF pieces = <<>> THEN <<>> ELSE Head(pieces) \o JoinAll(Tail(pieces))

\* str.endswith
EndsWith(s, suffix) ==
  Len(s) >= Len(suffix) /\ SubSeq(s, Len(s) - Len(suffix) + 1, Len(s)) = suffix

\* s < t for Python str: lexicographic by code point, a proper prefix first.
RECURSIVE StrLess(_, _)
StrLess(s, t) ==
  IF t = <<>> THEN FALSE
  ELSE IF s = <<>> THEN TRUE
  ELSE IF Head(s) = Head(t) THEN StrLess(Tail(s), Tail(t))
  ELSE CodePoint(Head(s)) < CodePoint(Head(t))

\* ---------------------------------------------------------------- Counter
\* counter[key] += n on an insertion-ordered mapping.
CounterAdd(counter, key, n) ==
  IF \E i \in 1..Len(counter) : counter[i].key = key
  THEN [i \in 1..Len(counter) |->
          IF counter[i].key = key
          THEN [key |-> key, count |-> counter[i].count + n]
          ELSE counter[i]]
  ELSE Append(counter, [key |-> key, count |-> n])

RECURSIVE CountWords(_, _)
CountWords(words, counter) ==
  IF words = <<>> THEN counter
  ELSE CountWords(Tail(words), CounterAdd(counter, WordTokens(Head(words)), 1))

RECURSIVE CountLines(_, _)
CountLines(lines, counter) ==
  IF lines = <<>> THEN counter
  ELSE CountLines(Tail(lines), CountWords(MarkedWords(Head(lines)), counter))

\* The word_freqs Counter that train builds from the corpus.
BuildWordFreqs(lines) == CountLines(lines, <<>>)

\* word_freqs for each corpus train may be called with.
WordFreqsOf == [lines \in Corpora |-> BuildWordFreqs(lines)]

\* The symbol set seeded without the filter on the end-of-word marker.
InitialSymbolsWithEndOfWord(wf) ==
  {unk_token} \cup UNION {Range(wf[i].key) : i \in 1..Len(wf)}

\* vocab_symbols before the merge loop.
InitialSymbols(wf) ==
  {unk_token} \cup
  {symbol \in UNION {Range(wf[i].key) : i \in 1..Len(wf)} :
     symbol # EndOfWord}

\* ------------------------------------------------------------- _get_stats
RECURSIVE StatsOfWord(_, _, _, _)
StatsOfWord(word, freq, i, stats) ==
  IF i > Len(word) - 1 THEN stats
  ELSE LET pair == <<word[i], word[i + 1]>>
       IN  IF EndOfWord \in Range(pair)
           THEN StatsOfWord(word, freq, i + 1, stats)
           ELSE StatsOfWord(word, freq, i + 1, CounterAdd(stats, pair, freq))

RECURSIVE StatsFrom(_, _, _)
StatsFrom(wf, k, stats) ==
  IF k > Len(wf) THEN stats
  ELSE StatsFrom(wf, k + 1, StatsOfWord(wf[k].key, wf[k].count, 1, stats))

get_stats(wf) == StatsFrom(wf, 1, <<>>)

\* The last key, in iteration order, whose value no other value exceeds.
MaxKeyLast(stats) ==
  LET top == CHOOSE i \in 1..Len(stats) :
               /\ \A j \in 1..Len(stats) : stats[j].count <= stats[i].count
               /\ \A j \in (i + 1)..Len(stats) : stats[j].count < stats[i].count
  IN  stats[top].key

\* max(stats, key=stats.get): the first key, in iteration order, whose value
\* no other value exceeds.
MaxKey(stats) ==
  LET top == CHOOSE i \in 1..Len(stats) :
               /\ \A j \in 1..Len(stats) : stats[j].count <= stats[i].count
               /\ \A j \in 1..(i - 1) : stats[j].count < stats[i].count
  IN  stats[top].key

\* ----------------------------------------------- _merge_vocab, _apply_merge
RECURSIVE MergeWordFrom(_, _, _, _)
MergeWordFrom(word, pair, i, merged_word) ==
  IF i > Len(word) THEN merged_word
  ELSE IF i < Len(word) /\ <<word[i], word[i + 1]>> = pair
       THEN MergeWordFrom(word, pair, i + 2, Append(merged_word, Join(pair)))
       ELSE MergeWordFrom(word, pair, i + 1, Append(merged_word, word[i]))

RECURSIVE MergeVocabFrom(_, _, _, _)
MergeVocabFrom(pair, wf, k, merged_vocab) ==
  IF k > Len(wf) THEN merged_vocab
  ELSE MergeVocabFrom(pair, wf, k + 1,
         CounterAdd(merged_vocab, MergeWordFrom(wf[k].key, pair, 1, <<>>),
                    wf[k].count))

merge_vocab(pair, wf) == MergeVocabFrom(pair, wf, 1, <<>>)

RECURSIVE ApplyMergeFrom(_, _, _, _)
ApplyMergeFrom(symbols, pair, i, merged) ==
  IF i > Len(symbols) THEN merged
  ELSE IF i < Len(symbols) /\ <<symbols[i], symbols[i + 1]>> = pair
       THEN ApplyMergeFrom(symbols, pair, i + 2, Append(merged, Join(pair)))
       ELSE ApplyMergeFrom(symbols, pair, i + 1, Append(merged, symbols[i]))

apply_merge(symbols, pair) == ApplyMergeFrom(symbols, pair, 1, <<>>)

\* ------------------------------------------------------- train: the vocab
\* sorted(symbols, reverse=True)
RECURSIVE SortedDescending(_)
SortedDescending(S) ==
  IF S = {} THEN <<>>
  ELSE LET m == CHOOSE x \in S : \A y \in S : x = y \/ StrLess(y, x)
       IN  <<m>> \o SortedDescending(S \ {m})

\* sorted(symbols): selection of the least remaining str, repeatedly.
RECURSIVE Sorted(_)
Sorted(S) ==
  IF S = {} THEN <<>>
  ELSE LET m == CHOOSE x \in S : \A y \in S : x = y \/ StrLess(x, y)
       IN  <<m>> \o Sorted(S \ {m})

\* [unk_token] + sorted(vocab_symbols - {unk_token})
OrderedVocab(symbols) == <<unk_token>> \o Sorted(symbols \ {unk_token})

\* {token: idx for idx, token in enumerate(ordered_vocab)}
Enumerate(ordered) ==
  [token \in Range(ordered) |->
     (CHOOSE i \in 1..Len(ordered) :
        ordered[i] = token /\ \A j \in (i + 1)..Len(ordered) : ordered[j] # token)
     - 1]

BuildVocab(symbols) == Enumerate(OrderedVocab(symbols))

EmptyVocab == [token \in {} |-> 0]

\* ------------------------------------------------------------------ encode
RECURSIVE ApplyMerges(_, _)
ApplyMerges(symbols, ms) ==
  IF ms = <<>> THEN symbols
  ELSE ApplyMerges(apply_merge(symbols, Head(ms)), Tail(ms))

\* The lookup with the first regular id as its default.
LookupDefaultOne(v, symbol) ==
  LET clean_symbol ==
        IF EndsWith(symbol, EndOfWord)
        THEN SubSeq(symbol, 1, Len(symbol) - Len(EndOfWord)) ELSE symbol
  IN  IF clean_symbol \in DOMAIN v THEN v[clean_symbol] ELSE 1

\* self.vocab.get(clean_symbol, self.vocab[self.unk_token])
Lookup(v, symbol) ==
  LET clean_symbol ==
        IF EndsWith(symbol, EndOfWord)
        THEN SubSeq(symbol, 1, Len(symbol) - Len(EndOfWord)) ELSE symbol
  IN  IF clean_symbol \in DOMAIN v THEN v[clean_symbol] ELSE v[unk_token]

RECURSIVE SymbolIds(_, _)
SymbolIds(symbols, v) ==
  IF symbols = <<>> THEN <<>>
  ELSE IF Head(symbols) = EndOfWord THEN SymbolIds(Tail(symbols), v)
  ELSE <<Lookup(v, Head(symbols))>> \o SymbolIds(Tail(symbols), v)

RECURSIVE WordsIds(_, _, _)
WordsIds(words, ms, v) ==
  IF words = <<>> THEN <<>>
  ELSE SymbolIds(ApplyMerges(WordTokens(Head(words)), ms), v)
         \o WordsIds(Tail(words), ms, v)

\* The token ids encode returns on a trained instance.
EncodeIds(text, ms, v) == WordsIds(MarkedWords(text), ms, v)

\* ------------------------------------------------------------------ decode
\* inverse_vocab.get(idx, self.unk_token)
InverseLookup(v, idx) ==
  IF \E token \in DOMAIN v : v[token] = idx
  THEN CHOOSE token \in DOMAIN v : v[token] = idx
  ELSE unk_token

\* text.replace(WordStart, " ")
ReplaceMarker(text) ==
  [i \in 1..Len(text) |-> IF text[i] = WordStart THEN " " ELSE text[i]]

\* The text decode returns on a trained instance.
DecodeText(token_ids, v) ==
  strip(ReplaceMarker(
    JoinAll([i \in 1..Len(token_ids) |-> InverseLookup(v, token_ids[i])])))

\* ------------------------------------------------------------------- state
\* merges, vocab: the fields of the BPETokenizer instance.
\* pc: "idle" between calls, "loop" inside train's merge loop.
\* corpus, vocab_size, word_freqs, vocab_symbols: the arguments and locals of
\*   the train call that last passed train's two checks.
\* res: what the last call did: its name, its outcome, and its argument and
\*   the value it returned: text and ids are encode's argument and result,
\*   and decode's result and argument; src is <<text>> on a decode of the
\*   ids that an encode of text has just returned, and <<>> otherwise; prior
\*   is whether the instance was trained when the call began.
\* trained: whether a train call has returned normally (history).
VARIABLES merges, vocab, pc, corpus, vocab_size, word_freqs, vocab_symbols,
          res, trained

vars == <<merges, vocab, pc, corpus, vocab_size, word_freqs, vocab_symbols,
          res, trained>>

locals == <<corpus, vocab_size, word_freqs, vocab_symbols>>

Result(op, status, text, ids, src) ==
  [op |-> op, status |-> status, text |-> text, ids |-> ids, src |-> src,
   prior |-> trained]

\* BPETokenizer(): the dataclass defaults.
Init ==
  /\ merges = <<>>
  /\ vocab = EmptyVocab
  /\ pc = "idle"
  /\ corpus = <<>>
  /\ vocab_size = 0
  /\ word_freqs = <<>>
  /\ vocab_symbols = {}
  /\ res = [op |-> "new", status |-> "ok", text |-> <<>>, ids |-> <<>>,
            src |-> <<>>, prior |-> FALSE]
  /\ trained = FALSE

\* train with the merge list cleared before the checks.
TrainRaiseClearsMerges(lines, size) ==
  /\ pc = "idle"
  /\ size < 2 \/ WordFreqsOf[lines] = <<>>
  /\ merges' = <<>>
  /\ res' = Result("train",
                   IF size < 2 THEN "InvalidArgument" ELSE "EmptyInput",
                   <<>>, <<>>, <<>>)
  /\ UNCHANGED <<vocab, pc, locals, trained>>

\* train raises ValueError: the instance is not touched.
TrainRaise(lines, size) ==
  /\ pc = "idle"
  /\ size < 2 \/ WordFreqsOf[lines] = <<>>
  /\ res' = Result("train",
                   IF size < 2 THEN "InvalidArgument" ELSE "EmptyInput",
                   <<>>, <<>>, <<>>)
  /\ UNCHANGED <<merges, vocab, pc, locals, trained>>

\* train without self.merges.clear().
TrainBeginKeepsMerges(lines, size) ==
  /\ pc = "idle"
  /\ size >= 2
  /\ WordFreqsOf[lines] # <<>>
  /\ corpus' = lines
  /\ vocab_size' = size
  /\ word_freqs' = WordFreqsOf[lines]
  /\ vocab_symbols' = InitialSymbols(WordFreqsOf[lines])
  /\ pc' = "loop"
  /\ res' = Result("train", "running", <<>>, <<>>, <<>>)
  /\ UNCHANGED <<merges, vocab, trained>>

\* train up to the merge loop: both checks pass, the merge list is cleared
\* and the symbol set is seeded.
TrainBegin(lines, size) ==
  /\ pc = "idle"
  /\ size >= 2
  /\ WordFreqsOf[lines] # <<>>
  /\ merges' = <<>>
  /\ corpus' = lines
  /\ vocab_size' = size
  /\ word_freqs' = WordFreqsOf[lines]
  /\ vocab_symbols' = InitialSymbols(WordFreqsOf[lines])
  /\ pc' = "loop"
  /\ res' = Result("train", "running", <<>>, <<>>, <<>>)
  /\ UNCHANGED <<vocab, trained>>

\* One iteration of the merge loop that learns a merge.
TrainLoop ==
  /\ pc = "loop"
  /\ Cardinality(vocab_symbols) < vocab_size
  /\ get_stats(word_freqs) # <<>>
  /\ LET best == MaxKey(get_stats(word_freqs))
     IN  /\ merges' = Append(merges, best)
         /\ word_freqs' = merge_vocab(best, word_freqs)
         /\ vocab_symbols' = vocab_symbols \cup {Join(best)}
  /\ UNCHANGED <<vocab, pc, corpus, vocab_size, res, trained>>

\* The loop without its break: it ends by its condition only.
TrainReturnNoBreak ==
  /\ pc = "loop"
  /\ ~(Cardinality(vocab_symbols) < vocab_size)
  /\ vocab' = BuildVocab(vocab_symbols)
  /\ pc' = "idle"
  /\ res' = [res EXCEPT !.status = "ok"]
  /\ trained' = TRUE
  /\ UNCHANGED <<merges, locals>>

\* The loop ends, by its condition or by the break, and train builds the
\* vocabulary and returns.
TrainReturn ==
  /\ pc = "loop"
  /\ \/ ~(Cardinality(vocab_symbols) < vocab_size)
     \/ get_stats(word_freqs) = <<>>
  /\ vocab' = BuildVocab(vocab_symbols)
  /\ pc' = "idle"
  /\ res' = [res EXCEPT !.status = "ok"]
  /\ trained' = TRUE
  /\ UNCHANGED <<merges, locals>>

\* encode without its guard.
EncodeUnguarded(text) ==
  /\ pc = "idle"
  /\ res' = Result("encode", "ok", text,
                   IF DOMAIN vocab = {} THEN <<>>
                   ELSE EncodeIds(text, merges, vocab), <<>>)
  /\ UNCHANGED <<merges, vocab, pc, locals, trained>>

Encode(text) ==
  /\ pc = "idle"
  /\ res' = IF DOMAIN vocab = {}
            THEN Result("encode", "NotTrained", text, <<>>, <<>>)
            ELSE Result("encode", "ok", text, EncodeIds(text, merges, vocab), <<>>)
  /\ UNCHANGED <<merges, vocab, pc, locals, trained>>

Decode(token_ids, src) ==
  /\ pc = "idle"
  /\ res' = IF DOMAIN vocab = {}
            THEN Result("decode", "NotTrained", <<>>, token_ids, src)
            ELSE Result("decode", "ok", DecodeText(token_ids, vocab), token_ids, src)
  /\ UNCHANGED <<merges, vocab, pc, locals, trained>>

\* The texts a caller encodes: short texts, and the lines it trained on.
EncodeInputs == Texts \cup Range(corpus)

EncodeCall == \E text \in EncodeInputs : Encode(text)

\* decode of caller-supplied ids
DecodeCall == \E token_ids \in IdSeqs : Decode(token_ids, <<>>)

\* decode of what encode has just returned
DecodeEncoded ==
  /\ res.op = "encode"
  /\ res.status = "ok"
  /\ Decode(res.ids, <<res.text>>)

\* An instance on which train, encode and decode are called in any order.
Next ==
  \/ \E lines \in SessionCorpora, size \in VocabSizes : TrainRaise(lines, size)
  \/ \E lines \in SessionCorpora, size \in VocabSizes : TrainBegin(lines, size)
  \/ TrainLoop
  \/ TrainReturn
  \/ EncodeCall
  \/ DecodeCall
  \/ DecodeEncoded

Spec == Init /\ [][Next]_vars

\* An instance on which train is called again and again, on longer corpora.
TrainNext ==
  \/ \E lines \in Corpora, size \in VocabSizes : TrainRaise(lines, size)
  \/ \E lines \in Corpora, size \in VocabSizes : TrainBegin(lines, size)
  \/ TrainLoop
  \/ TrainReturn

TrainSpec == Init /\ [][TrainNext]_vars

\* The same on the shorter corpora, for the check of termination.
ShortTrainNext ==
  \/ \E lines \in SessionCorpora, size \in VocabSizes : TrainRaise(lines, size)
  \/ \E lines \in SessionCorpora, size \in VocabSizes : TrainBegin(lines, size)
  \/ TrainLoop
  \/ TrainReturn

\* A train call, once made, runs to its end: the program is single-threaded
\* and synchronous, and nothing interrupts the loop.
FairTrainSpec ==
  Init /\ [][ShortTrainNext]_vars /\ WF_vars(TrainLoop) /\ WF_vars(TrainReturn)

\* --------------------------------------------------- train, run as a whole
\* The merge loop and the vocabulary it ends with, from the given merge
\* list, frequency table and symbol set.
RECURSIVE MergeLoop(_, _, _, _)
MergeLoop(ms, wf, symbols, size) ==
  IF Cardinality(symbols) < size /\ get_stats(wf) # <<>>
  THEN LET best == MaxKey(get_stats(wf))
       IN  MergeLoop(Append(ms, best), merge_vocab(best, wf),
                     symbols \cup {Join(best)}, size)
  ELSE [merges |-> ms, vocab |-> BuildVocab(symbols)]

\* What a successful train(lines, size) leaves in a new BPETokenizer().
TrainOnFresh(lines, size) ==
  MergeLoop(<<>>, BuildWordFreqs(lines), InitialSymbols(BuildWordFreqs(lines)),
            size)

\* ================================================================= claims
Returned == pc = "idle" /\ trained

\* The characters of the Words of the last training: those of its lines that
\* are not whitespace, and the word-start marker.
TrainingChars ==
  {WordStart} \cup
  (UNION {Range(corpus[k]) : k \in 1..Len(corpus)} \ Whitespace)

NonWhitespace(text) == {i \in 1..Len(text) : text[i] \notin Whitespace}

Occurrences(seq, x) == Cardinality({i \in 1..Len(seq) : seq[i] = x})

\* ---- C1
RECURSIVE CollapseRuns(_)
CollapseRuns(s) ==
  IF s = <<>> THEN <<>>
  ELSE IF Head(s) \in Whitespace
       THEN IF Len(s) >= 2 /\ s[2] \in Whitespace
            THEN CollapseRuns(Tail(s))
            ELSE <<" ">> \o CollapseRuns(Tail(s))
       ELSE <<Head(s)>> \o CollapseRuns(Tail(s))

\* Runs of whitespace collapsed to single spaces, outer whitespace removed.
NormalizeWhitespace(text) ==
  LET c == CollapseRuns(text)
      first == IF c # <<>> /\ c[1] \in Whitespace THEN 2 ELSE 1
      last == IF Len(c) >= first /\ c[Len(c)] \in Whitespace
              THEN Len(c) - 1 ELSE Len(c)
  IN  SubSeq(c, first, last)

\* C1: round trip.  Whenever decode has returned for the ids that encode
\* returned for a text that is one of the lines of the last training, the
\* decoded text is that line with its whitespace normalized.
C1_RoundTrip ==
  (/\ res.op = "decode"
   /\ res.status = "ok"
   /\ res.src # <<>>
   /\ res.src[1] \in Range(corpus))
  => res.text = NormalizeWhitespace(res.src[1])

\* ---- C2
\* C2: vocabulary size bound.  After a successful train the vocabulary holds
\* the unknown token and at least 1 and at most vocab_size - 1 other symbols.
C2_VocabSizeBound ==
  Returned =>
    /\ unk_token \in DOMAIN vocab
    /\ Cardinality(DOMAIN vocab \ {unk_token}) >= 1
    /\ Cardinality(DOMAIN vocab \ {unk_token}) <= vocab_size - 1

\* ---- C3
\* C3: pre-training guard.  An encode or decode call fails with NotTrained
\* exactly when no train call has succeeded before it, whatever its input
\* and whatever train calls have failed.
C3_NotTrainedGuard ==
  res.op \in {"encode", "decode"} =>
    /\ res.status \in {"ok", "NotTrained"}
    /\ (res.status = "NotTrained") <=> ~trained

\* encode of the empty text has failed with NotTrained on an instance that a
\* failed train call left untrained
C3_Witness ==
  /\ res.op = "encode"
  /\ res.text = <<>>
  /\ res.status = "NotTrained"
  /\ ~trained

\* ---- C4
\* The text has a word, and no character of its words is in a training Word.
AllUnknown(text) ==
  /\ NonWhitespace(text) # {}
  /\ \A i \in NonWhitespace(text) : text[i] \notin TrainingChars

C5_Determinism ==
  Returned =>
    /\ merges = TrainOnFresh(corpus, vocab_size).merges
    /\ vocab = TrainOnFresh(corpus, vocab_size).vocab

\* train has returned on an instance that was already trained, with merges
C5_Witness ==
  /\ Returned
  /\ res.op = "train"
  /\ res.status = "ok"
  /\ res.prior
  /\ merges # <<>>

\* ---- C6
\* C6: termination.  Every train call that enters the merge loop returns a
\* vocabulary, and when it returns the symbol set has reached vocab_size or
\* no eligible pair remains.
C6_Termination ==
  /\ (pc = "loop") ~> (pc = "idle" /\ res.op = "train" /\ res.status = "ok"
                       /\ DOMAIN vocab # {})
  /\ []((pc = "idle" /\ res.op = "train" /\ res.status = "ok") =>
          \/ Cardinality(vocab_symbols) >= vocab_size
          \/ get_stats(word_freqs) = <<>>)

\* train has returned with fewer symbols than requested, after a merge
C6_Witness ==
  /\ pc = "idle"
  /\ res.op = "train"
  /\ res.status = "ok"
  /\ merges # <<>>
  /\ Cardinality(vocab_symbols) < vocab_size

\* ---- C7
\* C7: id assignment.  In a vocabulary of n entries the unknown token has id
\* 0, the ids are exactly 0..n-1, and every other symbol's id is 1 plus the
\* number of other non-unknown symbols that are lexicographically smaller.
C7_IdAssignment ==
  DOMAIN vocab # {} =>
    /\ unk_token \in DOMAIN vocab
    /\ vocab[unk_token] = 0
    /\ {vocab[t] : t \in DOMAIN vocab} = 0..(Cardinality(DOMAIN vocab) - 1)
    /\ \A s \in DOMAIN vocab \ {unk_token} :
         vocab[s] = 1 + Cardinality({t \in DOMAIN vocab \ {unk_token} :
                                       StrLess(t, s)})

\* a vocabulary of at least five entries, one a proper prefix of another
C7_Witness ==
  /\ Returned
  /\ Cardinality(DOMAIN vocab) >= 5
  /\ \E s, t \in DOMAIN vocab \ {unk_token} :
       Len(s) < Len(t) /\ SubSeq(t, 1, Len(s)) = s

\* ---- C8
\* The symbols, other than the end-of-word marker, of the Words of a table.
Surviving(wf) ==
  (UNION {Range(wf[i].key) : i \in 1..Len(wf)}) \ {EndOfWord}

\* C8 as claimed: the vocabulary is the unknown token and the symbols that
\* still occur in some Word after all merges.
C8_SurvivingOnly ==
  Returned => DOMAIN vocab = {unk_token} \cup Surviving(word_freqs)

\* C8 as amended: the vocabulary is the unknown token, every character of
\* the initial Words and the concatenation of every learned merge; it holds
\* every surviving symbol, and keeps the symbols later merges consumed.
C8_VocabContent ==
  Returned =>
    /\ DOMAIN vocab = {unk_token} \cup {<<c>> : c \in TrainingChars}
                        \cup {Join(merges[i]) : i \in 1..Len(merges)}
    /\ Surviving(word_freqs) \subseteq DOMAIN vocab

\* train has returned a vocabulary with a symbol that no Word holds any more
C8_Witness ==
  /\ Returned
  /\ merges # <<>>
  /\ \E s \in DOMAIN vocab \ {unk_token} : s \notin Surviving(word_freqs)

\* ---- C9
\* The places (Word k, position i) where the pair is adjacent in the table.
Places(pair, wf) ==
  {p \in UNION {{<<k, i>> : i \in 1..(Len(wf[k].key) - 1)} : k \in 1..Len(wf)} :
     <<wf[p[1]].key[p[2]], wf[p[1]].key[p[2] + 1]>> = pair}

RECURSIVE SumFreq(_, _, _)
SumFreq(pair, wf, k) ==
  IF k > Len(wf) THEN 0
  ELSE wf[k].count * Cardinality({p \in Places(pair, wf) : p[1] = k})
         + SumFreq(pair, wf, k + 1)

\* The aggregate frequency: each occurrence counts its Word's frequency.
Frequency(pair, wf) == SumFreq(pair, wf, 1)

Before(p, q) == p[1] < q[1] \/ (p[1] = q[1] /\ p[2] < q[2])

FirstPlace(pair, wf) ==
  CHOOSE p \in Places(pair, wf) : \A q \in Places(pair, wf) : p = q \/ Before(p, q)

EligiblePairs(wf) ==
  {pair \in UNION {{<<wf[k].key[i], wf[k].key[i + 1]>> :
                      i \in 1..(Len(wf[k].key) - 1)} : k \in 1..Len(wf)} :
     EndOfWord \notin Range(pair)}

IsGreedyChoice(best, wf) ==
  /\ best \in EligiblePairs(wf)
  /\ \A pair \in EligiblePairs(wf) :
       /\ Frequency(pair, wf) <= Frequency(best, wf)
       /\ (Frequency(pair, wf) = Frequency(best, wf) /\ pair # best)
            => Before(FirstPlace(best, wf), FirstPlace(pair, wf))

\* C9: greedy merge selection.  Every step that appends a pair to the merge
\* list appends an adjacent pair of a current Word, without the end-of-word
\* marker, of maximal aggregate frequency, and among the pairs of that
\* frequency the one met first scanning the Words in table order.
C9_GreedyMerge ==
  [][(pc = "loop" /\ Len(merges') = Len(merges) + 1)
       => IsGreedyChoice(merges'[Len(merges')], word_freqs)]_vars

\* the first merge of a training was chosen among several pairs of maximal
\* frequency
C9_Witness ==
  /\ pc = "loop"
  /\ Len(merges) = 1
  /\ LET wf == BuildWordFreqs(corpus)
     IN  \E pair \in EligiblePairs(wf) :
           pair # merges[1] /\ Frequency(pair, wf) = Frequency(merges[1], wf)

\* ---- C10
\* C10: a failed train is atomic.  A step in which train fails leaves the
\* merge list and the vocabulary as they were.
C10_FailedTrainAtomic ==
  [][(pc = "idle" /\ res'.op = "train"
        /\ res'.status \in {"InvalidArgument", "EmptyInput"})
       => (merges' = merges /\ vocab' = vocab)]_vars

\* train has failed on an instance that holds merges and a vocabulary
C10_Witness ==
  /\ res.op = "train"
  /\ res.status \in {"InvalidArgument", "EmptyInput"}
  /\ trained
  /\ merges # <<>>
  /\ DOMAIN vocab # {}

====
